---- MODULE Spec2Model ----
(***************************************************************************)
(* The macOS keychain backend of the keyring library (keychain.go).        *)
(*                                                                         *)
(* One live backend instance k (struct keychain) talks to the secure store *)
(* provider (go-keychain), the biometric authenticator (go-touchid), the   *)
(* masked terminal reader and the configured password prompt.  The         *)
(* provider is the environment: its state is the set of keychain files,    *)
(* the default search list and the stored entries; every call into it may  *)
(* fail with a general error chosen by the environment record env.         *)
(***************************************************************************)
EXTENDS Integers, Sequences, FiniteSets, TLC

VARIABLES
    cfg,         \* the Config the live instance was opened with
    k,           \* the live *keychain instance (struct keychain)
    keychains,   \* provider: path -> [exists, locked, pass]
    searchList,  \* provider: the default search list (set of paths)
    items,       \* provider: the stored entries
    calls,       \* the external calls made by the Facade call that returned
    ret,         \* what that call returned, until the caller takes it up
    hist,        \* per-instance counters: gate entries, challenges (all,
                 \* passed), reserved entries written
    written      \* key -> the item last written by a successful Set, if any

vars == <<cfg, k, keychains, searchList, items, calls, ret, hist, written>>

-----------------------------------------------------------------------------
(* Bounds and value sets *)

\* how often one instance may enter the Biometric Gate
MaxGateCalls == 2

Login == "login.keychain"
NamedPath == "A.keychain"
OtherPath == "B.keychain"
Paths == {Login, NamedPath, OtherPath}

Service == "svc"
KeyNames == {"k1", "k2"}
Pass == {"p1", "p2"}

biometricsAccount == "x"
biometricsService == "x"

BiometricsLabel(path) == IF path = NamedPath THEN "Passphrase for A.keychain"
                         ELSE IF path = OtherPath THEN "Passphrase for B.keychain"
                         ELSE "Passphrase for "

\* *gokeychain.Access; NoAccess is the nil pointer / the attribute left out
NoAccess == [Label |-> "", TrustedApplications |-> "unset"]
Access(label, apps) == [Label |-> label, TrustedApplications |-> apps]

\* Items the callers write: they differ pairwise in data, label, description.
\* Every attribute is non-empty: what the provider does with an empty string
\* attribute is decided inside go-keychain, not in keychain.go.
Items ==
    { [Key |-> "k1", Data |-> "d1", Label |-> "l1", Description |-> "e3",
       KeychainNotTrustApplication |-> FALSE, KeychainNotSynchronizable |-> FALSE],
      [Key |-> "k1", Data |-> "d2", Label |-> "l2", Description |-> "e2",
       KeychainNotTrustApplication |-> TRUE, KeychainNotSynchronizable |-> FALSE],
      [Key |-> "k1", Data |-> "d2", Label |-> "l1", Description |-> "e1",
       KeychainNotTrustApplication |-> FALSE, KeychainNotSynchronizable |-> TRUE],
      [Key |-> "k2", Data |-> "d1", Label |-> "l2", Description |-> "e1",
       KeychainNotTrustApplication |-> FALSE, KeychainNotSynchronizable |-> FALSE] }

EmptyItem == [Key |-> "", Data |-> "", Label |-> "", Description |-> ""]

Configs ==
    [ ServiceName : {Service},
      KeychainName : {"", "A"},
      KeychainPasswordFunc : BOOLEAN,
      KeychainAccessibleWhenUnlocked : BOOLEAN,
      KeychainTrustApplication : BOOLEAN,
      KeychainSynchronizable : BOOLEAN ]

\* The configurations the backends of the model are opened with
Cfg(name, pw, awu, trust, sync) ==
    [ ServiceName |-> Service, KeychainName |-> name,
      KeychainPasswordFunc |-> pw, KeychainAccessibleWhenUnlocked |-> awu,
      KeychainTrustApplication |-> trust, KeychainSynchronizable |-> sync ]

InitConfigs ==
    { Cfg("A", TRUE, FALSE, TRUE, FALSE),
      Cfg("A", FALSE, TRUE, FALSE, TRUE),
      Cfg("", FALSE, FALSE, TRUE, TRUE) }

\* errors
ErrNil == "nil"
ErrKeyNotFound == "ErrKeyNotFound"
ErrorItemNotFound == "ErrorItemNotFound"
ErrorDuplicateItem == "ErrorDuplicateItem"
ErrorNoSuchKeychain == "ErrorNoSuchKeychain"
ErrorIO == "ErrorIO"
ErrorAuthFailed == "ErrorAuthFailed"
ErrBiometrics == "Authentication with biometrics failed"
ErrQueryFailed == "Failed to query keychain"
ErrNoResults == "no results"
ErrUpdateFailed == "Failed to update item in keychain"
ErrTerminal == "terminal read failed"
ErrPrompt == "password prompt failed"
ErrDenied == "denied"

\* the errors that are failures of the environment in a Facade call
Failures == {ErrorIO, ErrorAuthFailed, ErrTerminal, ErrPrompt, ErrDenied}

\* The environment of one Facade call: the one external call that fails in
\* it (if any) and the passphrase the human enters when asked for one.
GetFaults == {"none", "QueryItem"}
RemoveFaults == {"none", "Status", "DeleteItem"}
KeysFaults == {"none", "Status", "QueryItem"}
SetFaults == {"none", "Status", "AuthDeny", "AuthErr", "BioQuery",
              "ReadPassword", "LockAtPath", "UnlockAtPath", "BioAdd",
              "PasswordFunc", "NewKeychain", "AddItem", "ReQuery", "UpdateItem"}

Envs(faults) == [fault : faults, secret : Pass]
\* Get, GetMetadata, Remove and Keys ask nobody for a passphrase
EnvsNoSecret(faults) == [fault : faults, secret : {"p1"}]

-----------------------------------------------------------------------------
(* The world a Go function runs in, and what it returns *)

World == [k |-> k, keychains |-> keychains, searchList |-> searchList,
          items |-> items, calls |-> calls, hist |-> hist]

R(w, err, val) == [w |-> w, err |-> err, val |-> val]

\* an external call: what was called, on what, with which access record, and
\* (once it has returned) the error it returned; secret is the passphrase
\* handed to the call or handed back by it
Ev(call, service, target, access) ==
    [call |-> call, service |-> service, target |-> target, access |-> access,
     secret |-> "", err |-> "nil"]

WithSecret(ev, pass) == [ev EXCEPT !.secret = pass]

Log(w, ev) == [w EXCEPT !.calls = Append(@, ev)]

\* the external call logged last returns (val, err)
Returned(w, err) == [w EXCEPT !.calls[Len(w.calls)].err = err]
Out(w, err, val) == R(Returned(w, err), err, val)

-----------------------------------------------------------------------------
(* gokeychain.Item: the attribute map a query or a new entry is built in.  *)
(* "" is an attribute that is not set (SetString deletes on "").           *)

NewItem ==
    [ service |-> "", account |-> "", label |-> "", description |-> "",
      data |-> "", matchLimit |-> "", returnAttributes |-> FALSE,
      returnData |-> FALSE, searchList |-> "", useKeychain |-> "",
      synchronizable |-> "", accessible |-> "", access |-> NoAccess ]

DefaultKeychain == Login

\* the keychains a query looks in, in search order
Searched(w, q) ==
    IF q.searchList # "" THEN {q.searchList} \cap {p \in Paths : w.keychains[p].exists}
    ELSE w.searchList

Matches(w, q) ==
    { e \in w.items :
        /\ e.kc \in Searched(w, q)
        /\ q.service # "" => e.service = q.service
        /\ q.account # "" => e.account = q.account
        /\ q.label # "" => e.label = q.label }

Rank(e) == (IF e.kc = Login THEN 0 ELSE 10)
           + (IF e.account = "k1" THEN 1 ELSE IF e.account = "k2" THEN 2 ELSE 3)

RECURSIVE Ordered(_)
Ordered(S) ==
    IF S = {} THEN <<>>
    ELSE LET first == CHOOSE e \in S : \A o \in S : Rank(e) <= Rank(o)
         IN <<first>> \o Ordered(S \ {first})

QueryResult(q, e) ==
    [ Account |-> IF q.returnAttributes THEN e.account ELSE "",
      Label |-> IF q.returnAttributes THEN e.label ELSE "",
      Description |-> IF q.returnAttributes THEN e.description ELSE "",
      Data |-> IF q.returnData THEN e.data ELSE "" ]

\* gokeychain.QueryItem: (results, err); no match is (nil, nil)
QueryItem(w, q, failed) ==
    LET w1 == Log(w, Ev("QueryItem", q.service, q.account, NoAccess))
        all == Ordered(Matches(w, q))
        hits == IF q.matchLimit = "one" /\ Len(all) > 1 THEN <<all[1]>> ELSE all
    IN  IF failed THEN Out(w1, ErrorIO, <<>>)
        ELSE Out(w1, ErrNil, [i \in 1..Len(hits) |-> QueryResult(q, hits[i])])

\* Keychain.Status
Status(w, path, failed) ==
    LET w1 == Log(w, Ev("Status", "", path, NoAccess))
    IN  IF failed THEN Out(w1, ErrorIO, "")
        ELSE IF w.keychains[path].exists THEN Out(w1, ErrNil, "")
        ELSE Out(w1, ErrorNoSuchKeychain, "")

\* gokeychain.DeleteItem
DeleteItem(w, q, failed) ==
    LET w1 == Log(w, Ev("DeleteItem", q.service, q.account, NoAccess))
        hit == Matches(w, q)
    IN  IF failed THEN Out(w1, ErrorIO, "")
        ELSE IF hit = {} THEN Out(w1, ErrorItemNotFound, "")
        ELSE Out([w1 EXCEPT !.items = @ \ hit], ErrNil, "")

-----------------------------------------------------------------------------
(* The backend constructor *)

\* cfg.KeychainName + ".keychain"
PathOf(name) == IF name = "A" THEN NamedPath ELSE OtherPath

NewBackend(c) ==
    [ path |-> IF c.KeychainName # "" THEN PathOf(c.KeychainName) ELSE "",
      service |-> c.ServiceName,
      passphrase |-> "",
      authenticated |-> FALSE,
      passwordFunc |-> c.KeychainPasswordFunc,
      isSynchronizable |-> FALSE,
      isAccessibleWhenUnlocked |-> c.KeychainAccessibleWhenUnlocked,
      isTrusted |-> IF c.KeychainTrustApplication THEN TRUE ELSE FALSE ]

-----------------------------------------------------------------------------
(* Provider calls that write, the authenticator and the prompts *)

Entry(kc, item) ==
    [ kc |-> kc, service |-> item.service, account |-> item.account,
      label |-> item.label, description |-> item.description,
      data |-> item.data, synchronizable |-> item.synchronizable,
      accessible |-> item.accessible, access |-> item.access ]

\* gokeychain.AddItem
AddItem(w, item, failed) ==
    LET w1 == Log(w, Ev("AddItem", item.service, item.account, item.access))
        kc == IF item.useKeychain # "" THEN item.useKeychain ELSE DefaultKeychain
    IN  IF failed THEN Out(w1, ErrorIO, "")
        ELSE IF ~w.keychains[kc].exists THEN Out(w1, ErrorNoSuchKeychain, "")
        ELSE IF \E e \in w.items : /\ e.kc = kc
                                    /\ e.service = item.service
                                    /\ e.account = item.account
             THEN Out(w1, ErrorDuplicateItem, "")
        ELSE Out([w1 EXCEPT !.items = @ \cup {Entry(kc, item)}], ErrNil, "")

Updated(e, upd) ==
    [ e EXCEPT
        !.label = IF upd.label # "" THEN upd.label ELSE @,
        !.description = IF upd.description # "" THEN upd.description ELSE @,
        !.data = IF upd.data # "" THEN upd.data ELSE @,
        !.synchronizable = IF upd.synchronizable # "" THEN upd.synchronizable ELSE @,
        !.accessible = IF upd.accessible # "" THEN upd.accessible ELSE @,
        !.access = IF upd.access # NoAccess THEN upd.access ELSE @ ]

\* gokeychain.UpdateItem
UpdateItem(w, q, upd, failed) ==
    LET w1 == Log(w, Ev("UpdateItem", q.service, q.account, upd.access))
        all == Ordered(Matches(w, q))
        hit == IF q.matchLimit = "one" /\ Len(all) > 1 THEN {all[1]}
               ELSE Matches(w, q)
    IN  IF failed THEN Out(w1, ErrorIO, "")
        ELSE IF hit = {} THEN Out(w1, ErrorItemNotFound, "")
        ELSE Out([w1 EXCEPT !.items = (@ \ hit) \cup {Updated(e, upd) : e \in hit}],
               ErrNil, "")

\* gokeychain.LockAtPath
LockAtPath(w, path, failed) ==
    LET w1 == Log(w, Ev("LockAtPath", "", path, NoAccess))
    IN  IF failed THEN Out(w1, ErrorIO, "")
        ELSE IF ~w.keychains[path].exists THEN Out(w1, ErrorNoSuchKeychain, "")
        ELSE Out([w1 EXCEPT !.keychains[path].locked = TRUE], ErrNil, "")

\* gokeychain.UnlockAtPath: unlocking an unlocked keychain succeeds whatever
\* the password is (the comment at keychain.go:279)
UnlockAtPath(w, path, pass, failed) ==
    LET w1 == Log(w, WithSecret(Ev("UnlockAtPath", "", path, NoAccess), pass))
    IN  IF failed THEN Out(w1, ErrorIO, "")
        ELSE IF ~w.keychains[path].exists THEN Out(w1, ErrorNoSuchKeychain, "")
        ELSE IF w.keychains[path].locked /\ pass # w.keychains[path].pass
             THEN Out(w1, ErrorAuthFailed, "")
        ELSE Out([w1 EXCEPT !.keychains[path].locked = FALSE], ErrNil, "")

Created(w, path, pass) ==
    [w EXCEPT !.keychains[path] = [exists |-> TRUE, locked |-> FALSE, pass |-> pass],
              !.searchList = @ \cup {path}]

\* gokeychain.NewKeychain
NewKeychain(w, path, pass, failed) ==
    LET w1 == Log(w, WithSecret(Ev("NewKeychain", "", path, NoAccess), pass))
    IN  IF failed \/ w.keychains[path].exists THEN Out(w1, ErrorIO, "")
        ELSE Out(Created(w1, path, pass), ErrNil, path)

\* gokeychain.NewKeychainWithPrompt: the provider asks for the passphrase
NewKeychainWithPrompt(w, path, env) ==
    LET w1 == Log(w, Ev("NewKeychainWithPrompt", "", path, NoAccess))
    IN  IF env.fault = "NewKeychain" \/ w.keychains[path].exists
        THEN Out(w1, ErrorIO, "")
        ELSE Out(Created(w1, path, env.secret), ErrNil, path)

\* touchid.Authenticate: (ok, err)
Authenticate(w, env) ==
    LET w1 == [Log(w, Ev("Authenticate", "", w.k.path, NoAccess))
                 EXCEPT !.hist.auths = @ + 1]
    IN  IF env.fault = "AuthDeny"
        THEN R([Returned(w1, ErrDenied) EXCEPT !.hist.refused = TRUE],
               ErrNil, FALSE)
        ELSE IF env.fault = "AuthErr"
        THEN Out([w1 EXCEPT !.hist.refused = TRUE], ErrorIO, FALSE)
        ELSE Out([w1 EXCEPT !.hist.passed = @ + 1], ErrNil, TRUE)

\* terminal.ReadPassword
ReadPassword(w, env) ==
    LET w1 == Log(w, Ev("ReadPassword", "", "", NoAccess))
        w2 == Log(w, WithSecret(Ev("ReadPassword", "", "", NoAccess), env.secret))
    IN  IF env.fault = "ReadPassword" THEN Out(w1, ErrTerminal, "")
        ELSE Out(w2, ErrNil, env.secret)

\* k.passwordFunc
PasswordFunc(w, env) ==
    LET w1 == Log(w, Ev("PasswordFunc", "", "", NoAccess))
        w2 == Log(w, WithSecret(Ev("PasswordFunc", "", "", NoAccess), env.secret))
    IN  IF env.fault = "PasswordFunc" THEN Out(w1, ErrPrompt, "")
        ELSE Out(w2, ErrNil, env.secret)

-----------------------------------------------------------------------------
(* Store Opener and Biometric Gate *)

\* SetupLock that leaves the keychain as it is
SetupLock_Skipped(w, env) == R(w, ErrNil, "")

\* gokeychain.LockAtPath(k.path), its result dropped (keychain.go:281)
SetupLock(w, env) == LockAtPath(w, w.k.path, env.fault = "LockAtPath")

setupBiometrics(w, env) ==
    LET rd == ReadPassword(w, env)
        passphrase == rd.val
        lk == SetupLock(rd.w, env)
        ul == UnlockAtPath(lk.w, w.k.path, passphrase, env.fault = "UnlockAtPath")
        w3 == [ul.w EXCEPT !.k.passphrase = passphrase]
        item == [NewItem EXCEPT !.service = biometricsService,
                                !.account = biometricsAccount,
                                !.label = BiometricsLabel(w.k.path),
                                !.data = passphrase,
                                !.synchronizable = "no",
                                !.accessible = "whenUnlocked"]
        ad == AddItem(w3, item, env.fault = "BioAdd")
    IN  IF rd.err # ErrNil THEN R(rd.w, rd.err, "")
        ELSE IF ul.err # ErrNil THEN R(ul.w, ul.err, "")
        ELSE IF ad.err # ErrNil THEN ad
        ELSE R([ad.w EXCEPT !.hist.setups = @ + 1], ErrNil, "")

\* MarkAuthenticated that leaves the flag as it is
MarkAuthenticated_Not(w) == w

\* k.authenticated = true (keychain.go:311)
MarkAuthenticated(w) == [w EXCEPT !.k.authenticated = TRUE]

\* Refused that looks at the error only
Refused_ErrorOnly(au) == au.err # ErrNil

\* the challenge was not passed: `!ok || err != nil` (keychain.go:307)
Refused(au) == ~au.val \/ au.err # ErrNil

\* NoneStored that takes every lookup for empty
NoneStored_Always(results) == TRUE

\* `len(results) != 1` (keychain.go:326)
NoneStored(results) == Len(results) # 1

\* NeedsChallenge that forgets the instance is authenticated
NeedsChallenge_Always(kb) == TRUE

\* `if !k.authenticated` (keychain.go:304)
NeedsChallenge(kb) == ~kb.authenticated

openWithBiometrics(w, env) ==
    LET w0 == [w EXCEPT !.hist.gates = @ + 1]
        au == Authenticate(w0, env)
        w1 == MarkAuthenticated(au.w)
        query == [NewItem EXCEPT !.service = biometricsService,
                                 !.account = biometricsAccount,
                                 !.label = BiometricsLabel(w.k.path),
                                 !.matchLimit = "one",
                                 !.returnData = TRUE]
        q == QueryItem(w1, query, env.fault = "BioQuery")
        results == q.val
        su == setupBiometrics(q.w, env)
        ul == UnlockAtPath(q.w, w.k.path, results[1].Data,
                           env.fault = "UnlockAtPath")
    IN  IF NeedsChallenge(w.k)
        THEN IF Refused(au) THEN R(au.w, ErrBiometrics, "")
             ELSE IF q.err # ErrNil THEN R(q.w, q.err, "")
             ELSE IF NoneStored(results)
                  THEN IF su.err # ErrNil THEN R(su.w, su.err, "")
                       ELSE R(su.w, ErrNil, w.k.path)
             ELSE IF ul.err # ErrNil THEN R(ul.w, ul.err, "")
             ELSE R([ul.w EXCEPT !.k.passphrase = results[1].Data], ErrNil, w.k.path)
        ELSE R(w0, ErrNil, w.k.path)

\* OpenExisting that asks the provider to create the keychain first
OpenExisting_CreatesFirst(w, env) ==
    LET cr == NewKeychainWithPrompt(w, w.k.path, env)
    IN  openWithBiometrics(cr.w, env)

\* the keychain exists: open it through the gate (keychain.go:349-354)
OpenExisting(w, env) == openWithBiometrics(w, env)

\* HasSupplier that never sees the password function
HasSupplier_Never(kb) == FALSE

\* `k.passwordFunc == nil` (keychain.go:362), negated
HasSupplier(kb) == kb.passwordFunc

createOrOpen(w, env) ==
    LET st == Status(w, w.k.path, env.fault = "Status")
        pf == PasswordFunc(st.w, env)
    IN  IF st.err = ErrNil THEN OpenExisting(st.w, env)
        ELSE IF st.err # ErrorNoSuchKeychain THEN R(st.w, st.err, "")
        ELSE IF ~HasSupplier(w.k) THEN NewKeychainWithPrompt(st.w, w.k.path, env)
        ELSE IF pf.err # ErrNil THEN R(pf.w, pf.err, "")
        ELSE NewKeychain(pf.w, w.k.path, pf.val, env.fault = "NewKeychain")

-----------------------------------------------------------------------------
(* Facade: Set *)

\* EffectiveTrusted that ignores the override of the item
EffectiveTrusted_ConfigOnly(kb, item) == kb.isTrusted

\* isTrusted := k.isTrusted && !item.KeychainNotTrustApplication
EffectiveTrusted(kb, item) == kb.isTrusted /\ ~item.KeychainNotTrustApplication

\* the entry Set builds from the caller's item (keychain.go:139-173)
SetItem(kb, kc, item) ==
    LET isTrusted == EffectiveTrusted(kb, item)
    IN  [NewItem EXCEPT
            !.service = kb.service,
            !.account = item.Key,
            !.label = item.Label,
            !.description = item.Description,
            !.data = item.Data,
            !.useKeychain = IF kb.path # "" THEN kc ELSE "",
            !.synchronizable =
                IF kb.isSynchronizable /\ ~item.KeychainNotSynchronizable
                THEN "yes" ELSE "",
            !.accessible = IF kb.isAccessibleWhenUnlocked THEN "whenUnlocked" ELSE "",
            !.access = IF isTrusted THEN Access(item.Label, "nil")
                       ELSE Access(item.Label, "empty")]

\* UpdatePayload without SetAccess(nil)
UpdatePayload_KeepsAccess(kcItem) == kcItem

\* the payload of the update: the entry without its access record
UpdatePayload(kcItem) == [kcItem EXCEPT !.access = NoAccess]

\* the duplicate branch of Set (keychain.go:178-203)
SetUpdate(w, kc, kcItem, item, env) ==
    LET queryItem == [NewItem EXCEPT !.service = w.k.service,
                                     !.account = item.Key,
                                     !.matchLimit = "one",
                                     !.returnAttributes = TRUE,
                                     !.searchList = IF w.k.path # "" THEN kc ELSE ""]
        q == QueryItem(w, queryItem, env.fault = "ReQuery")
        up == UpdateItem(q.w, queryItem, UpdatePayload(kcItem),
                         env.fault = "UpdateItem")
    IN  IF q.err # ErrNil THEN R(q.w, ErrQueryFailed, "")
        ELSE IF Len(q.val) = 0 THEN R(q.w, ErrNoResults, "")
        ELSE IF up.err # ErrNil THEN R(up.w, ErrUpdateFailed, "")
        ELSE R(up.w, ErrNil, "")

\* what Set returns once AddItem has answered (keychain.go:177, 204-206)
SetAdded(ad, kc, kcItem, item, env) ==
    IF ad.err = ErrorDuplicateItem THEN SetUpdate(ad.w, kc, kcItem, item, env)
    ELSE R(ad.w, ErrNil, "")

SetStore(w, kc, item, env) ==
    LET kcItem == SetItem(w.k, kc, item)
        ad == AddItem(w, kcItem, env.fault = "AddItem")
    IN  SetAdded(ad, kc, kcItem, item, env)

Set(w, item, env) ==
    LET op == createOrOpen(w, env)
    IN  IF w.k.path # ""
        THEN IF op.err # ErrNil THEN R(op.w, op.err, "")
             ELSE SetStore(op.w, op.val, item, env)
        ELSE SetStore(w, "", item, env)

-----------------------------------------------------------------------------
(* Facade: Get, GetMetadata, Remove, Keys *)

\* GetQuery without SetAccount(key)
GetQuery_AnyAccount(kb, key) ==
    [NewItem EXCEPT !.service = kb.service,
                    !.matchLimit = "one", !.returnAttributes = TRUE,
                    !.returnData = TRUE,
                    !.searchList = IF kb.path # "" THEN kb.path ELSE ""]

\* the query Get builds (keychain.go:57-68)
GetQuery(kb, key) ==
    [NewItem EXCEPT !.service = kb.service, !.account = key,
                    !.matchLimit = "one", !.returnAttributes = TRUE,
                    !.returnData = TRUE,
                    !.searchList = IF kb.path # "" THEN kb.path ELSE ""]

\* GetItem with label and description taken from each other's attribute
GetItem_Swapped(key, result) ==
    [Key |-> key, Data |-> result.Data, Label |-> result.Description,
     Description |-> result.Label]

\* the Item Get builds from the first result (keychain.go:82-87)
GetItem(key, result) ==
    [Key |-> key, Data |-> result.Data, Label |-> result.Label,
     Description |-> result.Description]

Get(w, key, env) ==
    LET q == QueryItem(w, GetQuery(w.k, key), env.fault = "QueryItem")
        results == q.val
    IN  IF q.err = ErrorItemNotFound \/ Len(results) = 0
        THEN R(q.w, ErrKeyNotFound, EmptyItem)
        ELSE IF q.err # ErrNil THEN R(q.w, q.err, EmptyItem)
        ELSE R(q.w, ErrNil, GetItem(key, results[1]))

GetMetadata(w, key, env) ==
    LET query == [NewItem EXCEPT !.service = w.k.service, !.account = key,
                                 !.matchLimit = "one", !.returnAttributes = TRUE,
                                 !.returnData = FALSE]
        q == QueryItem(w, query, env.fault = "QueryItem")
        results == q.val
    IN  IF q.err = ErrorItemNotFound \/ Len(results) = 0
        THEN R(q.w, ErrKeyNotFound, EmptyItem)
        ELSE IF q.err # ErrNil THEN R(q.w, q.err, EmptyItem)
        ELSE R(q.w, ErrNil, [Key |-> key, Data |-> "",
                             Label |-> results[1].Label,
                             Description |-> results[1].Description])

\* RemoveStatus that opens the keychain the way Set does
RemoveStatus_Opens(w, env) == createOrOpen(w, env)

\* the status check of Remove (keychain.go:216-218)
RemoveStatus(w, env) == Status(w, w.k.path, env.fault = "Status")

\* RemoveStatusFailed without the case of the missing keychain
RemoveStatusFailed_AsIs(st) == R(st.w, st.err, "")

\* what Remove returns when the status check fails (keychain.go:219-222)
RemoveStatusFailed(st) ==
    IF st.err = ErrorNoSuchKeychain THEN R(st.w, ErrKeyNotFound, "")
    ELSE R(st.w, st.err, "")

Remove(w, key, env) ==
    LET item == [NewItem EXCEPT !.service = w.k.service, !.account = key]
        st == RemoveStatus(w, env)
    IN  IF w.k.path # ""
        THEN IF st.err # ErrNil THEN RemoveStatusFailed(st)
             ELSE DeleteItem(st.w, [item EXCEPT !.searchList = w.k.path],
                             env.fault = "DeleteItem")
        ELSE DeleteItem(w, item, env.fault = "DeleteItem")

AccountNames(results) == [i \in 1..Len(results) |-> results[i].Account]

\* the query of Keys and its answer (keychain.go:252-264)
KeysQuery(w, query, env) ==
    LET q == QueryItem(w, query, env.fault = "QueryItem")
    IN  IF q.err # ErrNil THEN R(q.w, q.err, <<>>)
        ELSE R(q.w, ErrNil, AccountNames(q.val))

\* KeysStatusFailed without the case of the missing keychain
KeysStatusFailed_Always(st) == R(st.w, st.err, <<>>)

\* what Keys returns when the status check fails (keychain.go:243-246)
KeysStatusFailed(st) ==
    IF st.err = ErrorNoSuchKeychain THEN R(st.w, ErrNil, <<>>)
    ELSE R(st.w, st.err, <<>>)

Keys(w, env) ==
    LET query == [NewItem EXCEPT !.service = w.k.service, !.matchLimit = "all",
                                 !.returnAttributes = TRUE]
        st == Status(w, w.k.path, env.fault = "Status")
    IN  IF w.k.path # ""
        THEN IF st.err # ErrNil THEN KeysStatusFailed(st)
             ELSE KeysQuery(st.w, [query EXCEPT !.searchList = w.k.path], env)
        ELSE KeysQuery(w, query, env)

-----------------------------------------------------------------------------
(* The state machine *)

NoHist == [gates |-> 0, auths |-> 0, refused |-> FALSE, passed |-> 0, setups |-> 0]

Ret(op, key, err, val, keys) ==
    [op |-> op, key |-> key, err |-> err, val |-> val, keys |-> keys]

\* the provider accepted an add or an update of an entry of the service
Stored(cs) ==
    \E i \in 1..Len(cs) : /\ cs[i].call \in {"AddItem", "UpdateItem"}
                           /\ cs[i].service = Service
                           /\ cs[i].err = ErrNil

NoRet == Ret("none", "", ErrNil, EmptyItem, <<>>)

\* no Facade call is in progress or waiting to be taken up
Idle == ret.op = "none"

Apply(r, op, key, val, keys) ==
    /\ Idle
    /\ k' = r.w.k
    /\ keychains' = r.w.keychains
    /\ searchList' = r.w.searchList
    /\ items' = r.w.items
    /\ calls' = r.w.calls
    /\ hist' = r.w.hist
    /\ ret' = Ret(op, key, r.err, val, keys)
    /\ UNCHANGED cfg

\* the named keychain before the first call: absent, or present with the
\* passphrase "p1" (the other element of Pass is then the wrong one)
KeychainStates ==
    {[exists |-> FALSE, locked |-> FALSE, pass |-> ""]}
    \cup [exists : {TRUE}, locked : BOOLEAN, pass : {"p1"}]

Init ==
    /\ cfg \in InitConfigs
    /\ k = NewBackend(cfg)
    /\ \E a \in KeychainStates :
          keychains = [p \in Paths |->
                         IF p = Login
                         THEN [exists |-> TRUE, locked |-> FALSE, pass |-> "p1"]
                         ELSE IF p = NamedPath THEN a
                         ELSE [exists |-> FALSE, locked |-> FALSE, pass |-> ""]]
    /\ searchList \in {sl \in SUBSET Paths :
                          /\ Login \in sl
                          /\ \A p \in sl : keychains[p].exists}
    /\ items = {}
    /\ calls = <<>>
    /\ ret = NoRet
    /\ hist = NoHist
    /\ written = [key \in KeyNames |-> EmptyItem]

\* the opener is called again: a new instance replaces the live one
Open ==
    /\ Idle
    /\ k # NewBackend(cfg)
    /\ k' = NewBackend(cfg)
    /\ hist' = NoHist
    /\ UNCHANGED <<cfg, keychains, searchList, items, calls, ret, written>>

\* the caller takes up the result of the call that returned
Return ==
    /\ ~Idle
    /\ ret' = NoRet
    /\ calls' = <<>>
    /\ UNCHANGED <<cfg, k, keychains, searchList, items, hist, written>>

DoGet ==
    \E key \in KeyNames, env \in EnvsNoSecret(GetFaults) :
        LET r == Get(World, key, env)
        IN  Apply(r, "Get", key, r.val, <<>>) /\ UNCHANGED written

DoGetMetadata ==
    \E key \in KeyNames, env \in EnvsNoSecret(GetFaults) :
        LET r == GetMetadata(World, key, env)
        IN  Apply(r, "GetMetadata", key, r.val, <<>>) /\ UNCHANGED written

DoRemove ==
    \E key \in KeyNames, env \in EnvsNoSecret(RemoveFaults) :
        LET r == Remove(World, key, env)
        IN  /\ Apply(r, "Remove", key, EmptyItem, <<>>)
            /\ written' = IF r.err = ErrNil THEN [written EXCEPT ![key] = EmptyItem]
                          ELSE written

DoKeys ==
    \E env \in EnvsNoSecret(KeysFaults) :
        LET r == Keys(World, env)
        IN  Apply(r, "Keys", "", EmptyItem, r.val) /\ UNCHANGED written

\* a Set of one of the given items in one of the given environments
SetStep(given_items, envs) ==
    /\ hist.gates < MaxGateCalls
    /\ \E item \in given_items, env \in envs :
          LET r == Set(World, item, env)
              given == [Key |-> item.Key, Data |-> item.Data,
                        Label |-> item.Label, Description |-> item.Description]
          IN  /\ Apply(r, "Set", item.Key, given, <<>>)
              /\ written' = IF r.err = ErrNil /\ Stored(r.w.calls)
                            THEN [written EXCEPT ![item.Key] = given]
                            ELSE written

DoSet == SetStep(Items, Envs(SetFaults))

\* Two named keychains: A.keychain (passphrase "p1") and B.keychain
\* (passphrase "p2") both exist, and every new instance is opened on either.
InitTwo ==
    /\ cfg = Cfg("A", FALSE, FALSE, TRUE, FALSE)
    /\ k = NewBackend(cfg)
    /\ \E la, lb \in BOOLEAN :
          keychains = [p \in Paths |->
                         IF p = Login
                         THEN [exists |-> TRUE, locked |-> FALSE, pass |-> "p1"]
                         ELSE IF p = NamedPath
                         THEN [exists |-> TRUE, locked |-> la, pass |-> "p1"]
                         ELSE [exists |-> TRUE, locked |-> lb, pass |-> "p2"]]
    /\ searchList = Paths
    /\ items = {}
    /\ calls = <<>>
    /\ ret = NoRet
    /\ hist = NoHist
    /\ written = [key \in KeyNames |-> EmptyItem]

\* the opener is called with the name of either keychain
OpenOn ==
    /\ Idle
    /\ \E name \in {"A", "B"} :
          /\ cfg' = [cfg EXCEPT !.KeychainName = name]
          /\ k' = NewBackend(cfg')
          /\ k' # k
    /\ hist' = NoHist
    /\ UNCHANGED <<keychains, searchList, items, calls, ret, written>>

\* Set in the two-keychain runs: one item per key; the challenge may be
\* refused and either passphrase may be typed, nothing else fails
TwoItems == {item \in Items : item.Data = "d1"}
TwoFaults == {"none", "AuthDeny"}

DoSetTwo == SetStep(TwoItems, Envs(TwoFaults))

NextTwo == OpenOn \/ DoSetTwo \/ Return

SpecTwo == InitTwo /\ [][NextTwo]_vars

Next == Open \/ DoGet \/ DoGetMetadata \/ DoRemove \/ DoKeys \/ DoSet \/ Return

Spec == Init /\ [][Next]_vars

-----------------------------------------------------------------------------
(* What the properties speak of *)

Called(c) == \E i \in 1..Len(calls) : calls[i].call = c

\* an external call of the Facade call that returned failed
Failed == \E i \in 1..Len(calls) : calls[i].err \in Failures

\* the keychains the live instance reads its entries from
Container == IF k.path # "" THEN {k.path} ELSE searchList

\* the keychain the live instance writes its entries to
Target == IF k.path # "" THEN k.path ELSE DefaultKeychain

ContainerExists == k.path = "" \/ keychains[k.path].exists

Held(key) ==
    {e \in items : e.service = k.service /\ e.account = key /\ e.kc \in Container}

HeldAt(key) ==
    {e \in items : e.service = k.service /\ e.account = key /\ e.kc = Target}

\* the access records the provider accepted in the call that returned
AccessMutations ==
    Cardinality({i \in 1..Len(calls) :
                    /\ calls[i].call \in {"AddItem", "UpdateItem"}
                    /\ calls[i].service = Service
                    /\ calls[i].err = ErrNil
                    /\ calls[i].access # NoAccess})

\* the add step of Set answered with an error that is not "duplicate item"
AddFailed ==
    \E i \in 1..Len(calls) : /\ calls[i].call = "AddItem"
                              /\ calls[i].service = Service
                              /\ calls[i].err \notin {ErrNil, ErrorDuplicateItem}

\* the query of Get or GetMetadata failed with an error that is not "not found"
QueryFailed ==
    \E i \in 1..Len(calls) : /\ calls[i].call = "QueryItem"
                              /\ calls[i].err \notin {ErrNil, ErrorItemNotFound}

\* Set reached the Biometric Gate: the status check found the keychain
GateCall == ret.op = "Set" /\ k.path # "" /\ calls[1].err = ErrNil

\* Set got its handle and went on to the add step
Proceeded ==
    \E i \in 1..Len(calls) : calls[i].call = "AddItem" /\ calls[i].service = Service

\* Set asked the provider to create the keychain
CreateCalled == Called("NewKeychain") \/ Called("NewKeychainWithPrompt")

\* the reserved biometric entries among the entries S
Reserved(S) ==
    {e \in S : e.service = biometricsService /\ e.account = biometricsAccount}

\* the stored passphrase the gate of the live instance finds
BioStored ==
    {e \in Reserved(items) : e.label = BiometricsLabel(k.path) /\ e.kc \in searchList}

\* Set passed the challenge and its lookup of the stored passphrase answered
PassedLookup ==
    /\ ret.op = "Set" /\ k.path # "" /\ Len(calls) >= 3
    /\ calls[1].call = "Status" /\ calls[1].err = ErrNil
    /\ calls[2].call = "Authenticate" /\ calls[2].err = ErrNil
    /\ calls[3].call = "QueryItem" /\ calls[3].err = ErrNil

\* how often the Facade call that returned made the external call c
Count(c) == Cardinality({i \in 1..Len(calls) : calls[i].call = c})

\* an environment in which no external call fails
NoFault == [fault |-> "none", secret |-> "p1"]

\* the ways the Set that returned came to a passphrase for the keychain
StoredPath ==
    \E i \in 2..Len(calls) : /\ calls[i].call = "UnlockAtPath"
                              /\ calls[i-1].call = "QueryItem"
SetupPath == Called("ReadPassword")
CreatePath == CreateCalled \/ Called("PasswordFunc")

PathsTaken ==
    (IF StoredPath THEN 1 ELSE 0) + (IF SetupPath THEN 1 ELSE 0)
        + (IF CreatePath THEN 1 ELSE 0)

\* the item the Set that returned was given, override flags included
GivenItem ==
    CHOOSE item \in Items :
        ret.val = [Key |-> item.Key, Data |-> item.Data,
                   Label |-> item.Label, Description |-> item.Description]

\* the Set that returned created an entry: the provider accepted its add
SetCreated ==
    /\ ret.op = "Set"
    /\ \E i \in 1..Len(calls) : /\ calls[i].call = "AddItem"
                                 /\ calls[i].service = Service
                                 /\ calls[i].err = ErrNil

-----------------------------------------------------------------------------
(* Properties *)

\* C1: whenever the add step of Set fails with an error other than "duplicate
\* item", Set returns an error.
C1_SetReportsAddFailure == (ret.op = "Set" /\ AddFailed) => ret.err # ErrNil

C3_Upsert ==
    [][ \A key \in KeyNames :
          (Idle /\ ret'.op = "Set" /\ ret'.key = key /\ ret'.err = ErrNil
                /\ Stored(calls'))
            => /\ HeldAt(key) # {}
                  => /\ Cardinality(HeldAt(key)') = 1
                     /\ \A e \in HeldAt(key)' :
                           /\ e.data = ret'.val.Data
                           /\ e.label = ret'.val.Label
                           /\ e.description = ret'.val.Description
                           /\ \A o \in HeldAt(key) : e.access = o.access
                     /\ AccessMutations' = 0
               /\ HeldAt(key) = {}
                  => /\ Cardinality(HeldAt(key)') = 1
                     /\ AccessMutations' = 1 ]_vars

C3_Witness ==
    /\ ret.op = "Set" /\ ret.err = ErrNil /\ Stored(calls)
    /\ \E i \in 1..Len(calls) : calls[i].call = "UpdateItem" /\ calls[i].err = ErrNil
    /\ \E e \in HeldAt(ret.key) : /\ e.data = ret.val.Data
                                    /\ e.access.Label # ret.val.Label

\* C4: when the query of Get fails with an error that is not the provider's
\* not-found error, Get returns that error, not NotFound.
C4_GetReturnsQueryError ==
    (ret.op = "Get" /\ QueryFailed)
        => (ret.err # ErrKeyNotFound /\ ret.err = calls[1].err)

\* C5: on an instance whose authenticator never refused, once the gate has
\* been entered twice or more the authenticator has been called exactly once,
\* and a Set that enters the gate then does not call it and goes on to the
\* add step.
C5_ChallengeOnce ==
    (hist.gates >= 2 /\ ~hist.refused)
        => /\ hist.auths = 1
           /\ GateCall => (~Called("Authenticate") /\ Proceeded)

C5_Witness ==
    /\ hist.gates >= 2 /\ ~hist.refused /\ hist.auths = 1
    /\ GateCall /\ Proceeded /\ ret.err = ErrNil

\* C6: Get of a key that has no entry in the (existing) container of the
\* instance returns NotFound and no item.
C6_GetMissing ==
    (ret.op = "Get" /\ ContainerExists /\ Held(ret.key) = {})
        => (ret.err = ErrKeyNotFound /\ ret.val = EmptyItem)

C6_Witness ==
    /\ ret.op = "Get" /\ k.path # "" /\ keychains[k.path].exists
    /\ Held(ret.key) = {} /\ written[ret.key] = EmptyItem
    /\ \E e \in items : e.kc = k.path /\ e.service = k.service
    /\ ret.err = ErrKeyNotFound

\* C7: Keys on an instance whose named keychain does not exist returns the
\* empty sequence and no error; its only external call is the status check,
\* and the keychain is not created.
C7_KeysNoContainer ==
    [][ (Idle /\ ret'.op = "Keys" /\ k.path # "" /\ ~keychains[k.path].exists
              /\ ~Failed')
          => /\ ret'.err = ErrNil
             /\ ret'.keys = <<>>
             /\ Len(calls') = 1 /\ calls'[1].call = "Status"
             /\ UNCHANGED <<keychains, searchList, items>> ]_vars

C7_Witness ==
    /\ ret.op = "Keys" /\ k.path # "" /\ ~keychains[k.path].exists
    /\ ~Failed /\ ret.err = ErrNil /\ ret.keys = <<>>
    /\ Len(calls) = 1 /\ calls[1].err = ErrorNoSuchKeychain

\* C8: Remove on an instance whose named keychain does not exist returns
\* NotFound; when the status check fails otherwise Remove returns that
\* error; in both cases the status check is the only external call and the
\* provider state is unchanged.
C8_RemoveNoContainer ==
    [][ (Idle /\ ret'.op = "Remove" /\ k.path # "")
          => /\ (~keychains[k.path].exists /\ ~Failed')
                => /\ ret'.err = ErrKeyNotFound
                   /\ Len(calls') = 1 /\ calls'[1].call = "Status"
                   /\ UNCHANGED <<keychains, searchList, items>>
             /\ calls'[1].err \notin {ErrNil, ErrorNoSuchKeychain}
                => /\ ret'.err = calls'[1].err
                   /\ Len(calls') = 1 /\ calls'[1].call = "Status"
                   /\ UNCHANGED <<keychains, searchList, items>> ]_vars

C8_Witness ==
    /\ ret.op = "Remove" /\ k.path # "" /\ ~keychains[k.path].exists
    /\ ~Failed /\ ret.err = ErrKeyNotFound

\* C9: Get, GetMetadata, Remove and Keys leave the instance (authenticated
\* flag and cached passphrase included) as it was and call only the status
\* check, the query and the delete of the provider; the authentication state
\* of an instance changes only in Set.
C9_Frame ==
    [][ /\ ret'.op \in {"Get", "GetMetadata", "Remove", "Keys"}
           => /\ k' = k
              /\ hist' = hist
              /\ \A i \in 1..Len(calls') :
                    calls'[i].call \in {"Status", "QueryItem", "DeleteItem"}
        /\ (k'.authenticated # k.authenticated \/ k'.passphrase # k.passphrase)
           => (ret'.op = "Set" \/ (Idle /\ Idle' /\ k' = NewBackend(cfg))) ]_vars

C9_Witness ==
    /\ ret.op \in {"Remove", "Keys"} /\ ret.err = ErrNil
    /\ k.authenticated /\ k.passphrase # ""
    /\ Called("Status")

\* C10: in one Set on a named keychain, creating the keychain and entering
\* the Biometric Gate exclude each other: when the status check finds the
\* keychain only the gate is entered, when it reports "no such keychain" the
\* gate is not entered, the authenticator is not called and the keychain is
\* created (unless the password prompt fails), and on any other status error
\* neither happens.
C10_CreateXorOpen ==
    [][ (Idle /\ ret'.op = "Set" /\ k.path # "")
          => LET entered == hist'.gates = hist.gates + 1
                 status == calls'[1].err
             IN  /\ calls'[1].call = "Status"
                 /\ hist'.gates \in {hist.gates, hist.gates + 1}
                 /\ ~(entered /\ (CreateCalled' \/ Called("PasswordFunc")'))
                 /\ status = ErrNil
                       => entered /\ ~CreateCalled' /\ ~Called("PasswordFunc")'
                 /\ status = ErrorNoSuchKeychain
                       => /\ ~entered
                          /\ ~Called("Authenticate")' /\ ~Called("UnlockAtPath")'
                          /\ CreateCalled' \/ (Called("PasswordFunc")' /\ Failed')
                 /\ status \notin {ErrNil, ErrorNoSuchKeychain}
                       => /\ ~entered /\ ~CreateCalled'
                          /\ Len(calls') = 1 /\ ret'.err = status ]_vars

C10_Witness ==
    /\ ret.op = "Set" /\ k.path # "" /\ ret.err = ErrNil
    /\ calls[1].err = ErrorNoSuchKeychain
    /\ Called("PasswordFunc") /\ Called("NewKeychain")
    /\ ~Called("Authenticate") /\ hist.gates = 0
    /\ keychains[k.path].exists

\* C11: a Set whose challenge is refused (the authenticator answers false or
\* with an error) fails with the authentication error; the instance stays
\* unauthenticated with no cached passphrase; the status check and the one
\* call of the authenticator are the only external calls, so the provider is
\* neither queried nor locked, unlocked, added to or updated.
C11_FailedChallenge ==
    [][ (Idle /\ ret'.op = "Set"
              /\ \E i \in 1..Len(calls') : /\ calls'[i].call = "Authenticate"
                                           /\ calls'[i].err # ErrNil)
          => /\ ret'.err = ErrBiometrics
             /\ ~k.authenticated /\ ~k'.authenticated
             /\ k.passphrase = "" /\ k'.passphrase = ""
             /\ Len(calls') = 2
             /\ calls'[1].call = "Status" /\ calls'[2].call = "Authenticate"
             /\ hist'.auths = hist.auths + 1
             /\ UNCHANGED <<keychains, searchList, items>> ]_vars

C11_Witness ==
    /\ ret.op = "Set" /\ ret.err = ErrBiometrics
    /\ Len(calls) = 2 /\ calls[2].call = "Authenticate"
    /\ calls[2].err = ErrDenied
    /\ ~k.authenticated /\ k.passphrase = ""
    /\ keychains[k.path].locked

\* C12: a Set on an existing keychain that passes the challenge and finds no
\* stored passphrase reads the passphrase from the terminal, then locks the
\* keychain, then unlocks it with the value read; when the unlock succeeds
\* that value is the cached passphrase (whether or not the add that follows
\* succeeds), then the reserved entry is added (accessible when unlocked, not
\* synchronizable, holding the value) and only after that the caller's item;
\* when the unlock fails nothing is cached, no entry is stored and no add is
\* attempted.
C12_SetupOrder ==
    [][ (Idle /\ PassedLookup' /\ BioStored = {})
          => LET cs == calls'
                 n == Len(cs)
                 entered == cs[4].secret
             IN  /\ n >= 4 /\ cs[4].call = "ReadPassword"
                 /\ cs[4].err = ErrNil
                    => /\ n >= 6
                       /\ cs[5].call = "LockAtPath" /\ cs[5].target = k.path
                       /\ cs[6].call = "UnlockAtPath" /\ cs[6].target = k.path
                       /\ cs[6].secret = entered
                 /\ (n >= 6 /\ cs[6].err = ErrNil)
                    => /\ k'.passphrase = entered
                       /\ n >= 7
                       /\ cs[7].call = "AddItem"
                       /\ cs[7].service = biometricsService
                       /\ cs[7].target = biometricsAccount
                       /\ \A i \in 1..6 : cs[i].call # "AddItem"
                       /\ cs[7].err = ErrNil
                          => /\ n >= 8
                             /\ cs[8].call = "AddItem" /\ cs[8].service = Service
                             /\ \E e \in Reserved(items') \ items :
                                   /\ e.data = entered
                                   /\ e.label = BiometricsLabel(k.path)
                                   /\ e.accessible = "whenUnlocked"
                                   /\ e.synchronizable = "no"
                       /\ cs[7].err # ErrNil
                          => /\ n = 7 /\ ret'.err = cs[7].err
                             /\ items' = items
                 /\ (n < 6 \/ cs[6].err # ErrNil)
                    => /\ k'.passphrase = "" /\ k.passphrase = ""
                       /\ items' = items
                       /\ ret'.err = cs[n].err /\ ret'.err # ErrNil
                       /\ \A i \in 1..n : cs[i].call # "AddItem" ]_vars

C12_Witness ==
    /\ PassedLookup /\ ret.err = ErrNil /\ Len(calls) = 8
    /\ calls[4].call = "ReadPassword" /\ calls[5].call = "LockAtPath"
    /\ calls[6].call = "UnlockAtPath" /\ calls[6].secret = "p1"
    /\ calls[7].call = "AddItem" /\ calls[7].service = biometricsService
    /\ calls[8].call = "AddItem" /\ calls[8].service = Service
    /\ calls[8].err = ErrNil
    /\ k.passphrase = "p1"
    /\ Reserved(items) # {} /\ HeldAt(ret.key) # {}

\* a setup whose unlock is refused
SetupUnlockRefused ==
    /\ PassedLookup /\ Len(calls) = 6
    /\ calls[6].call = "UnlockAtPath" /\ calls[6].err = ErrorAuthFailed
    /\ k.passphrase = "" /\ Reserved(items) = {}

\* C13: whenever the live instance is authenticated its cached passphrase is
\* set (to the value that unlocked its keychain), so a Set that skips the
\* challenge and goes on to the add step is on an instance that has unlocked
\* the keychain.
C13_GateInvariant == k.authenticated => k.passphrase # ""

\* C14: the Facade calls of one instance exclude each other (each is one step
\* of the model, whichever caller's Set comes next); however the Sets of an
\* instance on an existing keychain are ordered, the authenticator passes a
\* challenge of that instance at most once and the setup sub-flow writes the
\* reserved entry for it at most once.
C14_OncePerInstance == hist.passed <= 1 /\ hist.setups <= 1

C14_Witness ==
    /\ hist.gates >= 2 /\ hist.passed = 1 /\ hist.setups = 1
    /\ GateCall /\ ~Called("Authenticate") /\ ~Called("ReadPassword")
    /\ Proceeded /\ Cardinality(Reserved(items)) = 1

\* C15: a Set on an instance whose named keychain the status check reports
\* as missing: with a password function configured it calls that function
\* exactly once and, if no external call fails, creates the keychain with
\* exactly the passphrase the function returned and stores one entry for the
\* key, which a Get that follows returns; if the password function fails
\* its error is returned and neither keychain nor entry is created; without
\* a password function the provider's prompting creation is called and the
\* password function is not.
C15_CreateBranch ==
    [][ \A key \in KeyNames :
          (Idle /\ ret'.op = "Set" /\ ret'.key = key /\ k.path # ""
                /\ calls'[1].err = ErrorNoSuchKeychain)
            => /\ k.passwordFunc
                  => /\ Count("PasswordFunc")' = 1
                     /\ calls'[2].call = "PasswordFunc"
                     /\ ~Called("NewKeychainWithPrompt")'
                     /\ ~Failed'
                        => /\ ret'.err = ErrNil
                           /\ calls'[3].call = "NewKeychain"
                           /\ calls'[3].target = k.path
                           /\ calls'[3].secret = calls'[2].secret
                           /\ keychains'[k.path] =
                                 [exists |-> TRUE, locked |-> FALSE,
                                  pass |-> calls'[2].secret]
                           /\ Cardinality(HeldAt(key)') = 1
                           /\ items' = items \cup HeldAt(key)'
                           /\ LET g == Get(World, key, NoFault)'
                              IN  g.err = ErrNil /\ g.val = ret'.val
                     /\ calls'[2].err # ErrNil
                        => /\ ret'.err = calls'[2].err
                           /\ Len(calls') = 2
                           /\ UNCHANGED <<keychains, searchList, items>>
               /\ ~k.passwordFunc
                  => /\ ~Called("PasswordFunc")' /\ ~Called("NewKeychain")'
                     /\ calls'[2].call = "NewKeychainWithPrompt"
                     /\ calls'[2].target = k.path ]_vars

C15_Witness ==
    /\ ret.op = "Set" /\ ret.err = ErrNil /\ k.passwordFunc /\ ~Failed
    /\ calls[1].err = ErrorNoSuchKeychain
    /\ calls[2].call = "PasswordFunc" /\ calls[2].secret = "p2"
    /\ calls[3].call = "NewKeychain" /\ calls[3].err = ErrNil
    /\ keychains[k.path].exists /\ keychains[k.path].pass = "p2"
    /\ \E e \in HeldAt(ret.key) : e.data = ret.val.Data

\* the password function failed in the create branch
SupplierFailed ==
    /\ ret.op = "Set" /\ ret.err = ErrPrompt /\ Len(calls) = 2
    /\ ~keychains[k.path].exists /\ items = {}

\* C16: a Set that passes the challenge and finds exactly one stored
\* passphrase unlocks the keychain with that value as its next external
\* call; it never reads the terminal, never locks the keychain and adds no
\* reserved entry, and when the unlock succeeds the cached passphrase is the
\* stored value.  No Set takes more than one of the three ways to a
\* passphrase (stored, entered in the setup, new keychain).
C16_StoredPath ==
    [][ /\ (Idle /\ PassedLookup' /\ Cardinality(BioStored) = 1)
           => \A e \in BioStored :
                 /\ Len(calls') >= 4
                 /\ calls'[4].call = "UnlockAtPath"
                 /\ calls'[4].target = k.path
                 /\ calls'[4].secret = e.data
                 /\ ~Called("ReadPassword")' /\ ~Called("LockAtPath")'
                 /\ Count("UnlockAtPath")' = 1
                 /\ \A i \in 1..Len(calls') :
                       ~(calls'[i].call = "AddItem"
                           /\ calls'[i].service = biometricsService)
                 /\ Reserved(items') = Reserved(items)
                 /\ calls'[4].err = ErrNil
                       => k'.passphrase = e.data /\ hist'.setups = hist.setups
                 /\ calls'[4].err # ErrNil
                       => ret'.err = calls'[4].err /\ Len(calls') = 4
        /\ (Idle /\ ret'.op = "Set")
           => /\ PathsTaken' <= 1
              /\ Count("UnlockAtPath")' + Count("NewKeychain")'
                    + Count("NewKeychainWithPrompt")' <= 1 ]_vars

C16_Witness ==
    /\ PassedLookup /\ ret.err = ErrNil /\ StoredPath
    /\ calls[4].call = "UnlockAtPath" /\ calls[4].err = ErrNil
    /\ \E e \in BioStored : calls[4].secret = e.data /\ k.passphrase = e.data
    /\ hist.setups = 0 /\ Proceeded

\* C17: the entry a Set creates is synchronizable ("yes") exactly when the
\* configuration the backend was opened with asks for synchronizable entries
\* and the item does not override that.
C17_Synchronizable ==
    SetCreated
        => \A e \in HeldAt(ret.key) :
              (e.synchronizable = "yes")
                 <=> (cfg.KeychainSynchronizable
                        /\ ~GivenItem.KeychainNotSynchronizable)

\* C18: the entry a Set creates carries an access record labelled with the
\* label of the item; its list of trusted applications is left unrestricted
\* (nil) exactly when the configuration trusts the calling application and
\* the item does not override that, and is the empty list otherwise; the
\* entry is accessible-when-unlocked exactly when the configuration says so.
C18_TrustEncoding ==
    SetCreated
        => /\ HeldAt(ret.key) # {}
           /\ \A e \in HeldAt(ret.key) :
                 /\ e.access.Label = GivenItem.Label
                 /\ e.access.TrustedApplications \in {"nil", "empty"}
                 /\ (e.access.TrustedApplications = "nil")
                       <=> (cfg.KeychainTrustApplication
                              /\ ~GivenItem.KeychainNotTrustApplication)
                 /\ (e.accessible = "whenUnlocked")
                       <=> cfg.KeychainAccessibleWhenUnlocked
                 /\ e.accessible \in {"whenUnlocked", ""}

C18_Witness ==
    /\ SetCreated /\ ret.err = ErrNil
    /\ cfg.KeychainTrustApplication /\ GivenItem.KeychainNotTrustApplication
    /\ \E e \in HeldAt(ret.key) : e.access = Access("l2", "empty")

\* the other three combinations of configuration and override
TrustedCreated ==
    /\ SetCreated /\ cfg.KeychainTrustApplication
    /\ ~GivenItem.KeychainNotTrustApplication
    /\ \E e \in HeldAt(ret.key) : e.access.TrustedApplications = "nil"

UntrustedCreated ==
    /\ SetCreated /\ ~cfg.KeychainTrustApplication
    /\ ~GivenItem.KeychainNotTrustApplication
    /\ cfg.KeychainAccessibleWhenUnlocked
    /\ \E e \in HeldAt(ret.key) : /\ e.access.TrustedApplications = "empty"
                                    /\ e.accessible = "whenUnlocked"

UntrustedOverrideCreated ==
    /\ SetCreated /\ ~cfg.KeychainTrustApplication
    /\ GivenItem.KeychainNotTrustApplication
    /\ \E e \in HeldAt(ret.key) : e.access.TrustedApplications = "empty"

\* C19: the reserved entry is kept per keychain: with two existing keychains
\* and no stored passphrase for the one the instance is opened on, a Set that
\* passes the challenge and is given the right passphrase at the terminal,
\* with no external call failing, succeeds and leaves a reserved entry for
\* that keychain holding its passphrase, which a fresh instance then finds.
C19_ReservedPerContainer ==
    (PassedLookup /\ Called("ReadPassword") /\ ~Failed)
        => /\ ret.err = ErrNil
           /\ \E e \in BioStored : e.data = keychains[k.path].pass

\* C20: on an instance with a named keychain, whenever Get returns an item
\* for a key, a GetMetadata of that key (whose query does not fail) returns
\* metadata with the same key, label and description and no data.
C20_MetadataSameContainer ==
    (ret.op = "GetMetadata" /\ k.path # "" /\ ~Failed)
        => LET g == Get(World, ret.key, NoFault)
           IN  g.err = ErrNil
                  => /\ ret.err = ErrNil
                     /\ ret.val.Key = g.val.Key
                     /\ ret.val.Label = g.val.Label
                     /\ ret.val.Description = g.val.Description
                     /\ ret.val.Data = ""

====
